---- MODULE Spec2Model ----
(***************************************************************************)
(* StarbotAPI (src/starbot.js, the class that starts at line 130): a thin  *)
(* HTTP client holding an OAuth session.  The model keeps the three fields *)
(* of the client, the fetch() requests that are in flight, and the way the *)
(* most recently settled call ended.  JavaScript is single threaded: every *)
(* method runs without interruption up to its first await (the fetch), and *)
(* again from the arrival of the response to its return or throw.          *)
(***************************************************************************)
EXTENDS Integers, Sequences, FiniteSets, TLC

VARIABLES accessToken, clientId, clientSecret, pending, last, credsSet, tokenSrc

vars == <<accessToken, clientId, clientSecret, pending, last, credsSet, tokenSrc>>

\* The number of calls that may be awaiting their response at one time.
MaxInFlight == 2

-----------------------------------------------------------------------------
(* JavaScript values.  A string is a sequence of chunks: the characters of  *)
(* an opaque value are chunks of one character, a literal of the source is  *)
(* one chunk.                                                               *)

Null == [t |-> "null"]
Undefined == [t |-> "undefined"]
Str(s) == [t |-> "string", s |-> s]
Num(n) == [t |-> "number", n |-> n]
Arr(a) == [t |-> "array", a |-> a]

\* !v : the falsy values are null, undefined, "", 0 and false.
Truthy(v) ==
  ~(v = Null \/ v = Undefined \/ v = Str(<<>>) \/ v = Num(0)
      \/ v = [t |-> "boolean", b |-> FALSE])

DigitChar(d) ==
  CASE d = 0 -> "0" [] d = 1 -> "1" [] d = 2 -> "2" [] d = 3 -> "3" [] d = 4 -> "4"
    [] d = 5 -> "5" [] d = 6 -> "6" [] d = 7 -> "7" [] d = 8 -> "8" [] d = 9 -> "9"

RECURSIVE Digits(_)
Digits(n) == IF n < 10 THEN <<DigitChar(n)>> ELSE Digits(n \div 10) \o <<DigitChar(n % 10)>>

\* `${v}` : the string a template literal puts in place of v.
ToStr(v) ==
  CASE v.t = "string" -> v.s
    [] v.t = "number" -> Digits(v.n)
    [] v.t = "null" -> <<"null">>
    [] v.t = "undefined" -> <<"undefined">>
    [] v.t = "array" -> <<"[array]">>
    [] OTHER -> <<"[object Object]">>

\* o.k and o?.k on a value read as an object with the fields `fields`.
IsNullish(v) == v = Null \/ v = Undefined
HasField(v, k) == v.t = "object" /\ k \in DOMAIN v
Get(v, k) == IF HasField(v, k) THEN v[k] ELSE Undefined
OptGet(v, k) == IF IsNullish(v) THEN Undefined ELSE Get(v, k)

-----------------------------------------------------------------------------
(* Responses and the way a call ends.                                       *)

OkMin == 200
OkMax == 299

\* res.ok
Ok(status) == status >= OkMin /\ status <= OkMax

NotJson == [json |-> FALSE]
Json(v) == [json |-> TRUE, v |-> v]

\* A call ends by returning a value or by throwing.  Every error the client
\* throws itself is a plain Error told apart by its message; `kind` is the name
\* the design gives it.  `text` is the response text an ApiError message ends with.
NoText == [json |-> FALSE, none |-> TRUE]
Returned(v) == [ok |-> TRUE, value |-> v]
Thrown(kind, message, text) == [ok |-> FALSE, kind |-> kind, message |-> message, text |-> text]

\* The error a property read on null or undefined (or a call of a missing
\* method) throws, and the one res.json() throws on a body that is no JSON.
TypeError == Thrown("TypeError", <<"TypeError">>, NoText)
SyntaxError == Thrown("SyntaxError", <<"SyntaxError">>, NoText)

\* line 151
CredentialsError ==
  Thrown("AuthConfigurationError",
         <<"Call setCredentials() first. Need client_id and client_secret from Starbucks app.">>,
         NoText)

\* line 178
AuthFailed(res) == Thrown("AuthFailure", <<"Auth failed: ">> \o Digits(res.status), NoText)

\* line 193
NotAuthenticated ==
  Thrown("NotAuthenticatedError", <<"Not authenticated. Call login() or setToken() first.">>, NoText)

\* The message with the status text in place of the status code.
ApiFailed_StatusText(res) ==
  Thrown("ApiError", <<"Starbucks API ">> \o <<"Not Found">> \o <<": ">>, res.body)

\* line 213
ApiFailed(res) ==
  Thrown("ApiError", <<"Starbucks API ">> \o Digits(res.status) \o <<": ">>, res.body)

\* line 247
LocatorFailed(res) ==
  Thrown("ApiError", <<"Store locator failed: ">> \o Digits(res.status), NoText)

-----------------------------------------------------------------------------
(* URLs and requests.                                                       *)

BASE_URL == <<"https://openapi.starbucks.com/v1">>
USER_AGENT == <<"Starbucks Android 6.48">>

\* new URL(string): the path ends at the first "?" or "#" of the string.
RECURSIVE PathEnd(_, _)
PathEnd(s, i) ==
  IF i > Len(s) THEN Len(s)
  ELSE IF s[i] \in {"?", "#"} THEN i - 1
  ELSE PathEnd(s, i + 1)

Pathname(s) == SubSeq(s, 1, PathEnd(s, 1))
Remainder(s) == SubSeq(s, PathEnd(s, 1) + 1, Len(s))

\* lines 195-196: the URL of an authenticated request.
BuildURL(path, params) ==
  [pathname |-> Pathname(BASE_URL \o <<"/">> \o path),
   rest |-> Remainder(BASE_URL \o <<"/">> \o path),
   params |-> params]

\* JSON.stringify, as the receiver parses it: a key of an object whose value is
\* undefined is left out, an element of an array that is undefined becomes null.
RECURSIVE JsonStringify(_)
JsonStringify(v) ==
  CASE v.t = "object" ->
         [k \in {x \in DOMAIN v : x = "t" \/ v[x] # Undefined} |->
            IF k = "t" THEN v[k] ELSE JsonStringify(v[k])]
    [] v.t = "array" ->
         Arr([i \in 1..Len(v.a) |->
                IF v.a[i] = Undefined THEN Null ELSE JsonStringify(v.a[i])])
    [] OTHER -> v

NoBody == [none |-> TRUE]
NoReq == [none |-> TRUE]
NoResp == [none |-> TRUE]

\* line 201
AuthorizationHeader(token) == <<"Bearer ">> \o ToStr(token)

\* lines 198-210: the request _authedRequest hands to fetch.
AuthedFetch(method, path, params, body) ==
  [method |-> method,
   url |-> BuildURL(path, params),
   headers |-> [Authorization |-> AuthorizationHeader(accessToken),
                Accept |-> <<"application/json">>,
                UserAgent |-> USER_AGENT],
   body |-> IF Truthy(body) THEN JsonStringify(body) ELSE NoBody]

-----------------------------------------------------------------------------
(* The state.                                                               *)
(*   accessToken, clientId, clientSecret : the fields of the client.        *)
(*   pending[i] : a call that awaits the response to the request it sent,   *)
(*                or Idle.                                                   *)
(*   last       : how the most recently settled call ended.                 *)
(*   credsSet, tokenSrc : history; whether setCredentials was ever called,  *)
(*                and the operation that last assigned accessToken with the *)
(*                value it was given.                                        *)

Slots == 1..MaxInFlight
Idle == [op |-> "idle"]
NoCall == [op |-> "none"]

Busy == {i \in Slots : pending[i] # Idle}
HasFreeSlot == Busy # Slots
FreeSlot == CHOOSE i \in Slots \ Busy : \A j \in Slots \ Busy : i <= j

\* lines 131-135
Init ==
  /\ accessToken = Null
  /\ clientId = Null
  /\ clientSecret = Null
  /\ pending = [i \in Slots |-> Idle]
  /\ last = NoCall
  /\ credsSet = FALSE
  /\ tokenSrc = [by |-> "none", given |-> Null]

\* A call that sent `req` and now awaits its response.  `tok` is the session
\* token at the moment the call was made, `arg` what the call was made from.
Await(op, req, arg) ==
  [op |-> op, req |-> req, sent |-> 1, arg |-> arg, tok |-> accessToken]

\* A call that threw before it sent anything.
Rejected(op, error, arg) ==
  [op |-> op, out |-> error, sent |-> 0, req |-> NoReq, resp |-> NoResp, arg |-> arg,
   tok |-> accessToken]

\* A call that ended with `out` on the response `resp`.
Settled(call, resp, out) ==
  [op |-> call.op, out |-> out, sent |-> call.sent, req |-> call.req, resp |-> resp,
   arg |-> call.arg, tok |-> call.tok]

-----------------------------------------------------------------------------
(* Inputs.                                                                  *)

Id == Str(<<"i", "d">>)
Secret == Str(<<"s", "e", "c", "r", "e", "t">>)
TokenT == Str(<<"T">>)
TokenU == Str(<<"U">>)
TokenL == Str(<<"L">>)
TokenR == Str(<<"R">>)

CredentialInputs == {<<Id, Secret>>, <<Str(<<>>), Str(<<>>)>>}
TokenInputs == {Null, Str(<<>>), TokenT, TokenU}
Username == Str(<<"u">>)
Password == Str(<<"p">>)


-----------------------------------------------------------------------------
(* setCredentials, setToken, login.                                         *)

\* lines 141-145
SetCredentials(id, secret) ==
  /\ clientId' = id
  /\ clientSecret' = secret
  /\ credsSet' = TRUE
  /\ UNCHANGED <<accessToken, pending, last, tokenSrc>>

\* lines 187-190
SetToken(token) ==
  /\ accessToken' = token
  /\ tokenSrc' = [by |-> "setToken", given |-> token]
  /\ UNCHANGED <<clientId, clientSecret, pending, last, credsSet>>

\* lines 341-344: the signature is a stub; it depends on the client id and the clock.
Signature == <<"base64(">> \o ToStr(clientId) \o <<":now)">>

\* lines 153-176: the request login hands to fetch.
LoginFetch(username, password) ==
  [method |-> "POST",
   url |-> [pathname |-> Pathname(BASE_URL \o <<"/oauth/token">>),
            rest |-> <<>>,
            params |-> [sig |-> Signature, market |-> <<"CA">>, platform |-> <<"Android">>]],
   headers |-> [ContentType |-> <<"application/x-www-form-urlencoded; charset=UTF-8">>,
                UserAgent |-> USER_AGENT,
                Accept |-> <<"application/json">>,
                XApiKey |-> ToStr(clientId)],
   body |-> [grant_type |-> <<"password">>,
             client_id |-> ToStr(clientId),
             client_secret |-> ToStr(clientSecret),
             username |-> ToStr(username),
             password |-> ToStr(password)]]

\* login without the check of line 151.
HasCredentials_Unchecked == TRUE

\* line 151: login needs a client id.
HasCredentials == Truthy(clientId)

\* lines 150-176: login up to its await.
Login(username, password) ==
  /\ IF ~HasCredentials
     THEN /\ last' = Rejected("login", CredentialsError, Null)
          /\ UNCHANGED pending
     ELSE /\ HasFreeSlot
          /\ pending' = [pending EXCEPT ![FreeSlot] =
                           Await("login", LoginFetch(username, password), Null)]
          /\ UNCHANGED last
  /\ UNCHANGED <<accessToken, clientId, clientSecret, credsSet, tokenSrc>>

\* The bodies the token endpoint answers with.
Grant(token) == [t |-> "object", access_token |-> token]
LoginBodies ==
  {NotJson, Json(Null), Json(Grant(Undefined)), Json(Grant(Str(<<>>))),
   Json(Grant(TokenT)), Json(Grant(TokenL))}

\* lines 178-181: how login ends on the response res.
LoginOutcome(res) ==
  IF ~Ok(res.status) THEN AuthFailed(res)
  ELSE IF ~res.body.json THEN SyntaxError
  ELSE IF IsNullish(res.body.v) THEN TypeError
  ELSE Returned(res.body.v)

\* The body parsed and the token stored before res.ok is looked at.
StoresToken_BeforeCheck(res) == res.body.json /\ ~IsNullish(res.body.v)

\* lines 178-180: the assignment of line 180 is reached when nothing before it
\* threw.
StoresToken(res) == LoginOutcome(res).ok

\* The whole payload stored in place of its access_token.
LoginToken_Payload(data) == data

\* The token dropped by a login that succeeded.
LoginToken_Dropped(data) == Null

\* line 180: the token login stores.
LoginToken(data) == Get(data, "access_token")

\* lines 178-181: login from the arrival of the response.
LoginSettle(i, res) ==
  /\ pending[i] # Idle
  /\ pending[i].op = "login"
  /\ pending' = [pending EXCEPT ![i] = Idle]
  /\ last' = Settled(pending[i], res, LoginOutcome(res))
  /\ IF StoresToken(res)
     THEN /\ accessToken' = LoginToken(res.body.v)
          /\ tokenSrc' = [by |-> "login", given |-> Get(res.body.v, "access_token")]
     ELSE UNCHANGED <<accessToken, tokenSrc>>
  /\ UNCHANGED <<clientId, clientSecret, credsSet>>

-----------------------------------------------------------------------------
(* _authedRequest and the operations built on it.                           *)

\* line 193: an authenticated request needs a token.
HasToken == Truthy(accessToken)

\* A second fetch after a response that is not ok.
Refetches_OnFailure(res) == ~Ok(res.status)

\* lines 212-213: whether the response res makes the call fetch again.  There is
\* one fetch and no loop around it.
Refetches(res) == FALSE

\* lines 192-212: an operation that calls _authedRequest, up to the await of fetch.
Authed(op, method, path, params, body, arg) ==
  /\ IF ~HasToken
     THEN /\ last' = Rejected(op, NotAuthenticated, arg)
          /\ UNCHANGED pending
     ELSE /\ HasFreeSlot
          /\ pending' = [pending EXCEPT ![FreeSlot] =
                           Await(op, AuthedFetch(method, path, params, body), arg)]
          /\ UNCHANGED last
  /\ UNCHANGED <<accessToken, clientId, clientSecret, credsSet, tokenSrc>>

\* The token looked at again when the response arrives.
AuthedOutcome_Rechecked(res) ==
  IF ~HasToken THEN NotAuthenticated
  ELSE IF ~Ok(res.status) THEN ApiFailed(res)
  ELSE IF ~res.body.json THEN SyntaxError
  ELSE Returned(res.body.v)

\* lines 213-214: how _authedRequest ends on the response res.
AuthedOutcome(res) ==
  IF ~Ok(res.status) THEN ApiFailed(res)
  ELSE IF ~res.body.json THEN SyntaxError
  ELSE Returned(res.body.v)

Obj == [t |-> "object"]
IsArray(v) == v.t = "array"
HasNullish(a) == \E i \in 1..Len(a) : IsNullish(a[i])

\* lines 220-228
NearbyStores(lat, lng, limit, radius) ==
  Authed("nearbyStores", "GET", <<"stores/nearby">>,
         [latlng |-> ToStr(lat) \o <<",">> \o ToStr(lng),
          limit |-> ToStr(limit), radius |-> ToStr(radius),
          xopState |-> <<"true">>, userSubMarket |-> <<"CA">>,
          serviceTime |-> <<"true">>, locale |-> <<"en-CA">>],
         Null, Null)

\* lines 230-236: one mapped store.
StoreRecord(s) ==
  [t |-> "object",
   id |-> OptGet(Get(s, "store"), "id"),
   name |-> OptGet(Get(s, "store"), "name"),
   storeNumber |-> OptGet(Get(s, "store"), "storeNumber"),
   address |-> OptGet(Get(s, "store"), "address"),
   distance |-> Get(s, "distance")]

\* lines 230-236: (data.stores || []).map(...)
NearbyStoresResult(data) ==
  IF IsNullish(data) THEN TypeError
  ELSE LET stores == Get(data, "stores") IN
    IF ~Truthy(stores) THEN Returned(Arr(<<>>))
    ELSE IF ~IsArray(stores) THEN TypeError
    ELSE IF HasNullish(stores.a) THEN TypeError
    ELSE Returned(Arr([i \in 1..Len(stores.a) |-> StoreRecord(stores.a[i])]))

\* line 265
Cards == Authed("cards", "GET", <<"me/cards">>, Obj, Null, Null)

\* lines 266-271: one mapped card.
CardRecord(c) ==
  [t |-> "object",
   cardId |-> Get(c, "cardId"),
   cardNumber |-> Get(c, "cardNumber"),
   nickname |-> Get(c, "nickname"),
   balance |-> Get(c, "balance")]

\* line 266: Array.isArray(data) ? data : []
CardList(data) == IF IsArray(data) THEN data.a ELSE <<>>

\* (data || []).map(...), as nearbyStores has it.
CardsResult_OrEmpty(data) ==
  IF ~Truthy(data) THEN Returned(Arr(<<>>))
  ELSE IF ~IsArray(data) THEN TypeError
  ELSE IF HasNullish(data.a) THEN TypeError
  ELSE Returned(Arr([i \in 1..Len(data.a) |-> CardRecord(data.a[i])]))

\* lines 266-271
CardsResult(data) ==
  IF HasNullish(CardList(data)) THEN TypeError
  ELSE Returned(Arr([i \in 1..Len(CardList(data)) |-> CardRecord(CardList(data)[i])]))

\* lines 278-280
LastOrder ==
  Authed("lastOrder", "GET", <<"me/orders">>,
         [market |-> <<"CA">>, locale |-> <<"en-CA">>, limit |-> <<"1">>, offset |-> <<"0">>],
         Null, Null)

\* a?.[0]
First(v) ==
  IF IsNullish(v) THEN Undefined
  ELSE IF IsArray(v) /\ Len(v.a) >= 1 THEN v.a[1]
  ELSE Undefined

\* line 281: data?.orderHistoryItems?.[0]?.basket || null
LastOrderResult(data) ==
  LET basket == OptGet(First(OptGet(data, "orderHistoryItems")), "basket")
  IN Returned(IF Truthy(basket) THEN basket ELSE Null)

\* line 338
Rewards ==
  Authed("rewards", "GET", <<"me/rewards">>,
         [market |-> <<"CA">>, locale |-> <<"en-CA">>], Null, Null)

\* lines 304-306
PriceOrder(storeNumber, cart) ==
  Authed("priceOrder", "POST", <<"me/stores/">> \o ToStr(storeNumber) \o <<"/priceOrder">>,
         [market |-> <<"CA">>, locale |-> <<"en-CA">>, serviceTime |-> <<"true">>],
         cart, Null)

\* lines 308-313
PriceOrderResult(data) ==
  IF IsNullish(data) THEN TypeError
  ELSE Returned([t |-> "object",
                 orderToken |-> Get(data, "orderToken"),
                 total |-> OptGet(Get(data, "summary"), "totalAmount"),
                 storeNumber |-> OptGet(Get(data, "store"), "storeNumber"),
                 signature |-> Get(data, "signature")])

\* line 321: the path of the submission.
SubmitPath(pricedOrder) ==
  <<"me/stores/">> \o ToStr(Get(pricedOrder, "storeNumber")) \o <<"/orderToken/">>
     \o ToStr(Get(pricedOrder, "orderToken")) \o <<"/submitOrder">>

\* lines 323-330: the body of the submission.
SubmitBody(pricedOrder, cardId) ==
  [t |-> "object",
   signature |-> Get(pricedOrder, "signature"),
   tenders |-> Arr(<<[t |-> "object",
                      amountToCharge |-> Get(pricedOrder, "total"),
                      type |-> Str(<<"SVC">>),
                      id |-> cardId]>>)]

\* lines 319-332: the arguments of _authedRequest are evaluated before it is
\* called, so a pricedOrder that is null or undefined throws first.  `quote` is
\* the pricing response pricedOrder was made from (history, not an argument).
PlaceOrder(pricedOrder, cardId, quote) ==
  IF IsNullish(pricedOrder)
  THEN /\ last' = Rejected("placeOrder", TypeError, quote)
       /\ UNCHANGED <<accessToken, clientId, clientSecret, pending, credsSet, tokenSrc>>
  ELSE Authed("placeOrder", "POST", SubmitPath(pricedOrder),
              [market |-> <<"CA">>, locale |-> <<"en-CA">>],
              SubmitBody(pricedOrder, cardId), quote)

AuthedOps == {"nearbyStores", "cards", "lastOrder", "rewards", "priceOrder", "placeOrder"}

\* What each operation makes of the JSON _authedRequest returned.
OpResult(op, data) ==
  CASE op = "nearbyStores" -> NearbyStoresResult(data)
    [] op = "cards" -> CardsResult(data)
    [] op = "lastOrder" -> LastOrderResult(data)
    [] op = "priceOrder" -> PriceOrderResult(data)
    [] OTHER -> Returned(data)

\* How an authenticated operation ends on the response res.
OpOutcome(op, res) ==
  IF AuthedOutcome(res).ok THEN OpResult(op, AuthedOutcome(res).value) ELSE AuthedOutcome(res)

\* lines 212-214 and the operation's own lines after its await.
AuthedSettle(i, res) ==
  /\ pending[i] # Idle
  /\ pending[i].op \in AuthedOps
  /\ IF Refetches(res)
     THEN /\ pending' = [pending EXCEPT ![i].sent = @ + 1]
          /\ UNCHANGED last
     ELSE /\ pending' = [pending EXCEPT ![i] = Idle]
          /\ last' = Settled(pending[i], res, OpOutcome(pending[i].op, res))
  /\ UNCHANGED <<accessToken, clientId, clientSecret, credsSet, tokenSrc>>

-----------------------------------------------------------------------------
(* storesByAddress: the public locator, no token needed.                    *)

\* encodeURIComponent: the characters that would end the path or the query
\* are escaped.
EncodeChar(c) ==
  CASE c = "?" -> "%3F" [] c = "#" -> "%23" [] c = " " -> "%20" [] c = "&" -> "%26"
    [] OTHER -> c

EncodeURIComponent(s) == [i \in 1..Len(s) |-> EncodeChar(s[i])]

\* lines 244-246
LocatorFetch(address) ==
  [method |-> "GET",
   url |-> [pathname |-> <<"https://www.starbucks.ca/bff/locations">>,
            rest |-> <<"lat=49.1&lng=-122.6&mop=true&place=">>
                       \o EncodeURIComponent(ToStr(address)),
            params |-> Obj],
   headers |-> [UserAgent |-> USER_AGENT],
   body |-> NoBody]

\* lines 242-246: storesByAddress up to its await.
StoresByAddress(address) ==
  /\ HasFreeSlot
  /\ pending' = [pending EXCEPT ![FreeSlot] =
                   Await("storesByAddress", LocatorFetch(address), Null)]
  /\ UNCHANGED <<accessToken, clientId, clientSecret, last, credsSet, tokenSrc>>

Bool(b) == [t |-> "boolean", b |-> b]

\* lines 249-258: one mapped store of the locator.
LocatorRecord(s) ==
  [t |-> "object",
   id |-> Get(s, "id"),
   name |-> Get(s, "name"),
   storeNumber |-> Get(s, "storeNumber"),
   address |-> OptGet(Get(s, "address"), "streetAddressLine1"),
   city |-> OptGet(Get(s, "address"), "city"),
   distance |-> Get(s, "distance"),
   mobileOrder |-> Bool(Get(s, "xopState") = Str(<<"OPEN">>)),
   hours |-> OptGet(Get(s, "schedule"), "todayHours")]

\* lines 247-258: how storesByAddress ends on the response res.
LocatorOutcome(res) ==
  IF ~Ok(res.status) THEN LocatorFailed(res)
  ELSE IF ~res.body.json THEN SyntaxError
  ELSE IF IsNullish(res.body.v) THEN TypeError
  ELSE LET stores == Get(res.body.v, "stores") IN
    IF ~Truthy(stores) THEN Returned(Arr(<<>>))
    ELSE IF ~IsArray(stores) THEN TypeError
    ELSE IF HasNullish(stores.a) THEN TypeError
    ELSE Returned(Arr([i \in 1..Len(stores.a) |-> LocatorRecord(stores.a[i])]))

\* lines 247-258: storesByAddress from the arrival of the response.
LocatorSettle(i, res) ==
  /\ pending[i] # Idle
  /\ pending[i].op = "storesByAddress"
  /\ pending' = [pending EXCEPT ![i] = Idle]
  /\ last' = Settled(pending[i], res, LocatorOutcome(res))
  /\ UNCHANGED <<accessToken, clientId, clientSecret, credsSet, tokenSrc>>

-----------------------------------------------------------------------------
(* The answers of the endpoints and the arguments of the calls.             *)

StoreItem ==
  [t |-> "object",
   store |-> [t |-> "object", id |-> Str(<<"s", "1">>), name |-> Str(<<"Langley">>),
              storeNumber |-> Str(<<"7">>), address |-> Str(<<"200 St">>)],
   distance |-> Num(2)]

NearbyBodies ==
  {NotJson, Json(Null), Json(Obj),
   Json([t |-> "object", stores |-> Arr(<<StoreItem, Obj>>)]),
   Json([t |-> "object", stores |-> Arr(<<Null>>)]),
   Json([t |-> "object", stores |-> Str(<<"x">>)])}

Card ==
  [t |-> "object", cardId |-> Str(<<"c", "1">>), cardNumber |-> Str(<<"6", "0">>),
   nickname |-> Str(<<"mine">>), balance |-> Num(25)]

CardsBodies ==
  {NotJson, Json(Null), Json(Str(<<"x">>)), Json(Num(3)), Json(Obj),
   Json(Arr(<<Card, Obj>>)), Json(Arr(<<Null>>))}

Basket == [t |-> "object", preparation |-> Str(<<"pickup">>)]

LastOrderBodies ==
  {NotJson, Json(Null), Json(Obj),
   Json([t |-> "object", orderHistoryItems |-> Arr(<<>>)]),
   Json([t |-> "object", orderHistoryItems |-> Arr(<<[t |-> "object", basket |-> Basket]>>)])}

RewardsBodies == {NotJson, Json([t |-> "object", stars |-> Num(120)])}

\* A pricing response with the order token `token`.
Quote(token) ==
  [t |-> "object", orderToken |-> token, signature |-> Str(<<"g", "=">>),
   store |-> [t |-> "object", storeNumber |-> Num(12)],
   summary |-> [t |-> "object", totalAmount |-> Num(5)]]

PricingBodies ==
  {NotJson, Json(Null), Json(Obj),
   Json(Quote(Str(<<"k", "1">>))),
   Json(Quote(Str(<<"k", "?", "1">>)))}

SubmitBodies == {NotJson, Json([t |-> "object", orderId |-> Str(<<"o", "1">>)])}

LocatorItem ==
  [t |-> "object", id |-> Str(<<"s", "2">>), name |-> Str(<<"Willowbrook">>),
   storeNumber |-> Str(<<"8">>),
   address |-> [t |-> "object", streetAddressLine1 |-> Str(<<"Fraser Hwy">>),
                city |-> Str(<<"Langley">>)],
   distance |-> Num(3), xopState |-> Str(<<"OPEN">>),
   schedule |-> [t |-> "object", todayHours |-> Str(<<"7-9">>)]]

LocatorBodies ==
  {NotJson, Json(Null), Json(Obj),
   Json([t |-> "object", stores |-> Arr(<<LocatorItem, Obj>>)])}

Bodies(op) ==
  CASE op = "login" -> LoginBodies
    [] op = "nearbyStores" -> NearbyBodies
    [] op = "cards" -> CardsBodies
    [] op = "lastOrder" -> LastOrderBodies
    [] op = "rewards" -> RewardsBodies
    [] op = "priceOrder" -> PricingBodies
    [] op = "placeOrder" -> SubmitBodies
    [] op = "storesByAddress" -> LocatorBodies
    [] OTHER -> {}

\* What an endpoint answers: any of its bodies with 200, and the body of a
\* refusal with the statuses around the bounds of res.ok and with 404.
Refusal == Json([t |-> "object", access_token |-> TokenR, error |-> Str(<<"no">>)])
Responses(op) ==
  [status : {200}, body : Bodies(op)] \cup [status : {199, 299, 300, 404}, body : {Refusal}]

Carts ==
  {Null,
   [t |-> "object",
    cart |-> [t |-> "object", offers |-> Arr(<<>>), items |-> Arr(<<>>)],
    delivery |-> [t |-> "object", deliveryType |-> Str(<<"pickup">>)]]}

Addresses == {Str(<<"4", "0", " ", "A", "v", "e">>)}

\* The record the caller holds after priceOrder returned, and the pricing
\* response it was made from.
Priced == last.op = "priceOrder" /\ last.out.ok
PricedOrders == {Null} \cup (IF Priced THEN {last.out.value} ELSE {})
QuoteOf(pricedOrder) == IF IsNullish(pricedOrder) THEN Null ELSE last.resp.body.v

-----------------------------------------------------------------------------

\* No call awaits its response.
Awaited == Busy = {}

\* Every operation of the client, by a caller that awaits each call before it
\* makes the next one.
Next ==
  \/ \E c \in CredentialInputs : SetCredentials(c[1], c[2])
  \/ \E token \in TokenInputs : SetToken(token)
  \/ Awaited /\ Login(Username, Password)
  \/ Awaited /\ NearbyStores(Num(49), Num(122), Num(5), Num(3))
  \/ Awaited /\ Cards
  \/ Awaited /\ LastOrder
  \/ Awaited /\ Rewards
  \/ Awaited /\ \E cart \in Carts : PriceOrder(Num(12), cart)
  \/ Awaited /\ \E p \in PricedOrders : PlaceOrder(p, Str(<<"c", "1">>), QuoteOf(p))
  \/ Awaited /\ \E address \in Addresses : StoresByAddress(address)
  \/ \E i \in Slots : \E res \in Responses("login") : LoginSettle(i, res)
  \/ \E i \in Slots : \E res \in Responses(pending[i].op) : AuthedSettle(i, res)
  \/ \E i \in Slots : \E res \in Responses("storesByAddress") : LocatorSettle(i, res)

Spec == Init /\ [][Next]_vars

\* The answers and the tokens of the overlapping calls: a token only setToken
\* gives (U) and one only the token endpoint gives (L), a payload without a
\* token, and a refusal.
OverlapTokens == {Null, TokenU}
OverlapResponses(op) ==
  IF op = "login"
  THEN [status : {200}, body : {Json(Grant(TokenL)), Json(Grant(Undefined))}]
         \cup [status : {404}, body : {Refusal}]
  ELSE [status : {200}, body : Bodies(op)] \cup [status : {404}, body : {Refusal}]

\* Calls that overlap: up to MaxInFlight of login, nearbyStores and rewards
\* await their responses at once, and the responses arrive in any order.
NextOverlap ==
  \/ \E c \in CredentialInputs : SetCredentials(c[1], c[2])
  \/ \E token \in OverlapTokens : SetToken(token)
  \/ Login(Username, Password)
  \/ NearbyStores(Num(49), Num(122), Num(5), Num(3))
  \/ Rewards
  \/ \E i \in Slots : \E res \in OverlapResponses("login") : LoginSettle(i, res)
  \/ \E i \in Slots : \E res \in OverlapResponses(pending[i].op) : AuthedSettle(i, res)

SpecOverlap == Init /\ [][NextOverlap]_vars

-----------------------------------------------------------------------------
(* What the properties below read off the state.                            *)

\* The calls in flight that went through _authedRequest.
AuthedInFlight == {i \in Busy : pending[i].op \in AuthedOps}

\* The most recently settled call got a response, and it was not ok.
Refused == last.op # "none" /\ last.sent > 0 /\ ~Ok(last.resp.status)

DigitChars == {"0", "1", "2", "3", "4", "5", "6", "7", "8", "9"}
DigitValue(c) == CHOOSE d \in 0..9 : DigitChar(d) = c

\* The number written in the chunks of m from position i on.
RECURSIVE Decimal(_, _, _)
Decimal(m, i, acc) ==
  IF i > Len(m) \/ m[i] \notin DigitChars THEN acc
  ELSE Decimal(m, i + 1, 10 * acc + DigitValue(m[i]))

\* The status code an error message carries after its first chunk, -1 if none.
StatusIn(m) == IF Len(m) >= 2 /\ m[2] \in DigitChars THEN Decimal(m, 2, 0) ELSE -1

-----------------------------------------------------------------------------
(* C1 *)

\* C1: an authenticated operation called while the session holds no token
\* fails with NotAuthenticatedError and sends no request.
C1_NoTokenNoRequest ==
  (last.op \in AuthedOps /\ ~Truthy(last.tok)) =>
    /\ last.out = NotAuthenticated
    /\ last.sent = 0
    /\ last.req = NoReq

-----------------------------------------------------------------------------
(* C2 *)

\* C2: as long as setCredentials was never called, no login reaches the token
\* endpoint, and every login ends with AuthConfigurationError.
C2_LoginNeedsCredentials ==
  ~credsSet =>
    /\ \A i \in Busy : pending[i].op # "login"
    /\ last.op = "login" => (last.out = CredentialsError /\ last.sent = 0 /\ last.req = NoReq)

\* login was called, and failed, before any setCredentials.
C2_Witness == ~credsSet /\ last.op = "login" /\ ~last.out.ok

-----------------------------------------------------------------------------
(* C3 *)

-----------------------------------------------------------------------------
(* C4 *)

\* A call that went through _authedRequest sends its request in this step.
Starts(i) == pending[i] = Idle /\ pending'[i] # Idle /\ pending'[i].op \in AuthedOps

\* A call that went through _authedRequest is rejected in this step.
RejectedNow == last' # last /\ last'.op \in AuthedOps /\ last'.sent = 0

\* A nearbyStores call ends in this step.
NearbyEnds == \E i \in Slots : pending[i].op = "nearbyStores" /\ pending'[i] = Idle

\* s.a?.b read off the payload.
Nested(s, a, b) == IF a \in DOMAIN s /\ b \in DOMAIN s[a] THEN s[a][b] ELSE Undefined

\* The store list of a payload that is an object: absent, or a list of objects.
ListedStores(payload) == IF "stores" \in DOMAIN payload THEN payload.stores.a ELSE <<>>
Listing(payload) ==
  /\ payload.t = "object"
  /\ "stores" \in DOMAIN payload =>
       (IsArray(payload.stores) /\ \A k \in 1..Len(payload.stores.a) : payload.stores.a[k].t = "object")

\* r is the reduced record of the store s of the payload.
Reduced(s, r) ==
  /\ r.id = Nested(s, "store", "id")
  /\ r.name = Nested(s, "store", "name")
  /\ r.storeNumber = Nested(s, "store", "storeNumber")
  /\ r.address = Nested(s, "store", "address")
  /\ r.distance = (IF "distance" \in DOMAIN s THEN s.distance ELSE Undefined)

-----------------------------------------------------------------------------
(* C5 *)

\* A login call ends in this step.
LoginEnds == \E i \in Slots : pending[i].op = "login" /\ pending'[i] = Idle

\* This step is a setToken.
SetTokenStep ==
  /\ UNCHANGED <<pending, last, clientId, clientSecret, credsSet>>
  /\ tokenSrc'.by = "setToken"

\* C5 as stated: a token that is present is never absent again, whatever
\* setToken is given and whatever payload login receives.
C5_TokenNeverAbsentAgain == [][Truthy(accessToken) => Truthy(accessToken')]_vars

\* C5 as amended: a token that is present stays present through every step but
\* two: a setToken whose argument is falsy (null, undefined, "", 0, false), and
\* a login that succeeds on a payload whose access_token is missing or falsy.
C5_ClearedOnlyByEmptyToken ==
  [][(Truthy(accessToken) /\ ~Truthy(accessToken')) =>
       \/ SetTokenStep /\ ~Truthy(tokenSrc'.given)
       \/ /\ LoginEnds
          /\ last'.out.ok
          /\ ~Truthy(Get(last'.resp.body.v, "access_token"))
    ]_vars

\* A login made while a token was present was refused, and the token is still
\* the one the session held.
C5_Witness ==
  /\ Truthy(accessToken)
  /\ last.op = "login"
  /\ Refused
  /\ last.tok = accessToken

-----------------------------------------------------------------------------
(* C6 *)

\* A pricing response that has an order token, a signature, a store number and
\* a total.
Quoted(q) ==
  /\ q.t = "object"
  /\ {"orderToken", "signature", "store", "summary"} \subseteq DOMAIN q

\* The request req carries the four values of the pricing response q.
Carries(req, q) ==
  /\ req.url.pathname =
       BASE_URL \o <<"/">> \o <<"me/stores/">> \o ToStr(q.store.storeNumber)
         \o <<"/orderToken/">> \o q.orderToken.s \o <<"/submitOrder">>
  /\ req.body.signature = q.signature
  /\ req.body.tenders.a[1].amountToCharge = q.summary.totalAmount

\* C6: the submission placeOrder sends for the record priceOrder returned has
\* the order token and the store number of the pricing response in its path,
\* its signature in the body and its total as the amount to charge.
C6_QuoteCarriedUnmodified ==
  \A i \in Busy :
    (pending[i].op = "placeOrder" /\ Quoted(pending[i].arg)) =>
      Carries(pending[i].req, pending[i].arg)

-----------------------------------------------------------------------------
(* C7 *)

\* C7: cards() on a success response whose JSON is no array returns the empty
\* list.
C7_NonArrayGivesEmpty ==
  (/\ last.op = "cards"
   /\ last.sent > 0
   /\ Ok(last.resp.status)
   /\ last.resp.body.json
   /\ ~IsArray(last.resp.body.v)) => last.out = Returned(Arr(<<>>))

\* cards() has returned on a payload that is an object.
C7_Witness ==
  /\ last.op = "cards"
  /\ last.sent > 0
  /\ last.resp = [status |-> 200, body |-> Json(Obj)]
  /\ last.out.ok

-----------------------------------------------------------------------------
(* C8 *)

\* C8: a call sends at most one request; a call that fails for want of
\* credentials or of a token sends none; a call whose response is not ok has
\* ended with that error after its one request.
C8_NoRetry ==
  /\ \A i \in Busy : pending[i].sent = 1
  /\ last.op # "none" =>
       /\ last.sent \in {0, 1}
       /\ (last.out = CredentialsError \/ last.out = NotAuthenticated) =>
            (last.sent = 0 /\ last.req = NoReq)
       /\ Refused => (~last.out.ok /\ last.sent = 1 /\ last.out.kind \in {"AuthFailure", "ApiError"})

\* An authenticated operation was refused with 404 and has ended.
C8_Witness ==
  /\ last.op \in AuthedOps
  /\ Refused
  /\ last.resp.status = 404
  /\ last.sent = 1

-----------------------------------------------------------------------------
(* C9 *)

\* A login call ends in this step on a response that is ok.
LoginSuccessStep == LoginEnds /\ Ok(last'.resp.status)

\* This step is a setCredentials.
SetCredentialsStep ==
  /\ UNCHANGED <<accessToken, pending, last, tokenSrc>>
  /\ credsSet'

\* A call ends in this step, and it fails.
FailedStep ==
  /\ last' # last \/ \E i \in Slots : pending[i] # Idle /\ pending'[i] = Idle
  /\ ~last'.out.ok

\* C9 as stated: the token changes only in setToken and in a login whose
\* response is ok; every other operation, and every call that fails, leaves
\* the token, the client id and the client secret as they were.
C9_OnlyTokenWritersChangeSession ==
  [][/\ accessToken' # accessToken => (SetTokenStep \/ LoginSuccessStep)
     /\ ~(SetTokenStep \/ LoginSuccessStep) => UNCHANGED <<accessToken, clientId, clientSecret>>
     /\ FailedStep => UNCHANGED <<accessToken, clientId, clientSecret>>
    ]_vars

\* C9 as amended: the token changes only in setToken and in a login whose
\* response is ok; the client id and the client secret change only in
\* setCredentials; every call that fails leaves all three as they were.
C9_SessionFrame ==
  [][/\ accessToken' # accessToken => (SetTokenStep \/ LoginSuccessStep)
     /\ <<clientId, clientSecret>>' # <<clientId, clientSecret>> => SetCredentialsStep
     /\ FailedStep => UNCHANGED <<accessToken, clientId, clientSecret>>
    ]_vars

\* A login was refused with a body that holds the token R, and the session
\* still holds the token it had when login was called.
C9_Witness ==
  /\ last.op = "login"
  /\ Refused
  /\ last.resp.body = Refusal
  /\ Truthy(last.tok)
  /\ accessToken = last.tok

-----------------------------------------------------------------------------
(* C10 *)

\* C10: a request in flight carries the token the session held when its
\* operation was called, whatever setToken and login have stored since; and an
\* operation called while a token was present does not end with
\* NotAuthenticatedError.
C10_TokenOfInvocation ==
  /\ \A i \in AuthedInFlight :
       /\ Truthy(pending[i].tok)
       /\ pending[i].req.headers.Authorization = <<"Bearer ">> \o pending[i].tok.s
  /\ (last.op \in AuthedOps /\ last.sent > 0) =>
       last.req.headers.Authorization = <<"Bearer ">> \o last.tok.s
  /\ (last.op \in AuthedOps /\ Truthy(last.tok)) => last.out # NotAuthenticated

\* A login that ended while a request was in flight has replaced the token the
\* request was sent with.
C10_Witness ==
  /\ tokenSrc.by = "login"
  /\ \E i \in AuthedInFlight : pending[i].tok # accessToken

====
